---- MODULE Spec2Model ----
(***************************************************************************)
(* Model of the STL NIF (c_src/stl_nif.cpp): the four entry points         *)
(* decompose, decompose_multi, seasonal_strength and trend_strength, the   *)
(* helpers to_vector_float and convert_params, and the STL / MSTL engine   *)
(* they call (stl.hpp, modelled from the design document).                 *)
(*                                                                         *)
(* Numbers: int64_t and size_t are both IntBits wide (a scaled-down LP64). *)
(* The series values are small integers, which float holds exactly, and    *)
(* the engine's arithmetic is exact; a robustness weight is a fixed-point  *)
(* number with WOne standing for 1.0.  The Loess smoother is abstracted to *)
(* a weighted mean (mode "mean") or to an interpolating smoother           *)
(* ("interp"), chosen per fit.                                             *)
(***************************************************************************)
EXTENDS Integers, Sequences, FiniteSets, TLC

\* ------------------------------------------------------------------ bounds
MaxLen == 6
MaxLoops == 2
IntBits == 4
WOne == 4

\* ------------------------------------------------------- machine integers
Word == 2 ^ IntBits
MinInt == 0 - 2 ^ (IntBits - 1)
MaxInt == 2 ^ (IntBits - 1) - 1

\* two's-complement wrap of an arithmetic result into int64_t
WrapInt(x) == ((x - MinInt) % Word) + MinInt

\* static_cast<size_t>(x) of an int64_t
CastSizeT(x) == x % Word

\* period * 2 leaves int64_t: signed overflow, undefined behaviour
Overflows(period) == period * 2 > MaxInt \/ period * 2 < MinInt

\* period * 2 in int64_t arithmetic, as a build without overflow traps computes it
Mul2(period) == WrapInt(period * 2)

\* ------------------------------------------------------ std::optional<T>
NoInt == [has |-> FALSE, val |-> 0]
NoBool == [has |-> FALSE, val |-> FALSE]
NoSeq == [has |-> FALSE, val |-> <<>>]
Some(v) == [has |-> TRUE, val |-> v]

\* ------------------------------------------------------------- sequences
RECURSIVE SumOver(_, _)
SumOver(f, S) ==
  IF S = {} THEN 0
  ELSE LET i == CHOOSE j \in S : TRUE IN f[i] + SumOver(f, S \ {i})

SumSeq(s) == SumOver(s, DOMAIN s)

Abs(x) == IF x < 0 THEN 0 - x ELSE x

Max(a, b) == IF a > b THEN a ELSE b

Zeros(n) == [i \in 1..n |-> 0]

Ones(n) == [i \in 1..n |-> WOne]

\* ------------------------------------------------------------ ExStlParams
StlFields == <<"seasonal_length", "trend_length", "low_pass_length",
               "seasonal_degree", "trend_degree", "low_pass_degree",
               "seasonal_jump", "trend_jump", "low_pass_jump",
               "inner_loops", "outer_loops", "robust">>

ExStlParams == [seasonal_length |-> NoInt, trend_length |-> NoInt,
                low_pass_length |-> NoInt, seasonal_degree |-> NoInt,
                trend_degree |-> NoInt, low_pass_degree |-> NoInt,
                seasonal_jump |-> NoInt, trend_jump |-> NoInt,
                low_pass_jump |-> NoInt, inner_loops |-> NoInt,
                outer_loops |-> NoInt, robust |-> NoBool,
                iterations |-> NoInt, lambda |-> NoInt,
                seasonal_lengths |-> NoSeq]

\* a default-constructed stl::StlParams: every field unset
StlParams == [seasonal_length |-> NoInt, trend_length |-> NoInt,
              low_pass_length |-> NoInt, seasonal_degree |-> NoInt,
              trend_degree |-> NoInt, low_pass_degree |-> NoInt,
              seasonal_jump |-> NoInt, trend_jump |-> NoInt,
              low_pass_jump |-> NoInt, inner_loops |-> NoInt,
              outer_loops |-> NoInt, robust |-> NoBool]

\* a fluent setter of stl::StlParams: a copy with one field set
SetParam(params, name, v) == [params EXCEPT ![name] = Some(v)]

\* APPLY_PARAM with trend_length read from seasonal_length
APPLY_PARAM_Shifted(params, ex_params, name) ==
  LET from == IF name = "trend_length" THEN "seasonal_length" ELSE name
  IN IF ex_params[from].has
     THEN SetParam(params, name, ex_params[from].val)
     ELSE params

APPLY_PARAM(params, ex_params, name) ==
  IF ex_params[name].has
  THEN SetParam(params, name, ex_params[name].val)
  ELSE params

RECURSIVE ApplyFrom(_, _, _)
ApplyFrom(params, ex_params, i) ==
  IF i > Len(StlFields) THEN params
  ELSE ApplyFrom(APPLY_PARAM(params, ex_params, StlFields[i]), ex_params, i + 1)

convert_params(ex_params) == ApplyFrom(StlParams, ex_params, 1)

\* ------------------------------------------------------- to_vector_float
\* a list cell: a double, an integer that fits int, an integer that does
\* not, or a term that is no number
Cell(kind, val) == [kind |-> kind, val |-> val]

NotAList == [is_list |-> FALSE, cells |-> <<>>]

List(cells) == [is_list |-> TRUE, cells |-> cells]

CellIsNumber(c) == c.kind = "double" \/ c.kind = "int"

\* to_vector_float losing the first cell of the list
to_vector_float_DropsHead(term) ==
  IF ~term.is_list THEN [ok |-> FALSE, vec |-> <<>>, what |-> "Expected a list"]
  ELSE IF \E i \in DOMAIN term.cells : ~CellIsNumber(term.cells[i])
       THEN [ok |-> FALSE, vec |-> <<>>, what |-> "List elements must be numbers"]
       ELSE [ok |-> TRUE,
             vec |-> [i \in 1..(Len(term.cells) - 1) |-> term.cells[i + 1].val],
             what |-> ""]

to_vector_float(term) ==
  IF ~term.is_list THEN [ok |-> FALSE, vec |-> <<>>, what |-> "Expected a list"]
  ELSE IF \E i \in DOMAIN term.cells : ~CellIsNumber(term.cells[i])
       THEN [ok |-> FALSE, vec |-> <<>>, what |-> "List elements must be numbers"]
       ELSE [ok |-> TRUE,
             vec |-> [i \in DOMAIN term.cells |-> term.cells[i].val],
             what |-> ""]

\* ------------------------------------------------ parameter model (engine)
DefaultInnerLoops == 2
DefaultOuterLoops == 1

EffRobust(p) == p.robust.has /\ p.robust.val

EffInner(p) == IF p.inner_loops.has THEN p.inner_loops.val ELSE DefaultInnerLoops

\* outer_loops is forced to >= 1 when robust = true
EffOuter(p) ==
  LET o == IF p.outer_loops.has THEN p.outer_loops.val ELSE DefaultOuterLoops
  IN IF EffRobust(p) THEN Max(o, 1) ELSE o

\* the minimal window a degree implies: deg + 1 points, made odd
MinWindow(deg) == 2 * deg + 1

DegreeOf(d) == IF d.has THEN d.val ELSE 0

ValidWindow(len, deg, jump) ==
  /\ DegreeOf(deg) \in {0, 1}
  /\ len.has => (len.val % 2 = 1 /\ len.val >= MinWindow(DegreeOf(deg)))
  /\ jump.has => jump.val >= 1
  /\ (jump.has /\ len.has) => jump.val <= len.val

ValidStlParams(p) ==
  /\ ValidWindow(p.seasonal_length, p.seasonal_degree, p.seasonal_jump)
  /\ ValidWindow(p.trend_length, p.trend_degree, p.trend_jump)
  /\ ValidWindow(p.low_pass_length, p.low_pass_degree, p.low_pass_jump)
  /\ p.inner_loops.has => p.inner_loops.val >= 0
  /\ p.outer_loops.has => p.outer_loops.val >= 0

\* ------------------------------------------------------- Loess (abstract)
Modes == {"mean", "interp"}

\* weighted mean of xs over the positions S; unweighted when the weights vanish
WMean(xs, ws, S) ==
  LET sw == SumOver(ws, S)
  IN IF sw = 0
     THEN SumOver(xs, S) \div Cardinality(S)
     ELSE SumOver([i \in DOMAIN xs |-> ws[i] * xs[i]], S) \div sw

Loess(xs, ws, mode) ==
  IF mode = "interp" THEN xs
  ELSE [i \in DOMAIN xs |-> WMean(xs, ws, DOMAIN xs)]

Phase(xs, np, i) == {j \in DOMAIN xs : j % np = i % np}

\* one smoothed value per position from its own cycle-subseries
CycleSubseries(xs, ws, np, mode) ==
  IF mode = "interp" THEN xs
  ELSE [i \in DOMAIN xs |-> WMean(xs, ws, Phase(xs, np, i))]

LowPass(c) == [i \in DOMAIN c |-> SumSeq(c) \div Len(c)]

Sub(a, b) == [i \in DOMAIN a |-> a[i] - b[i]]

\* ------------------------------------------------- robustness weighting
\* the k-th smallest element of a
Kth(a, k) ==
  CHOOSE v \in {a[i] : i \in DOMAIN a} :
    /\ Cardinality({i \in DOMAIN a : a[i] < v}) < k
    /\ Cardinality({i \in DOMAIN a : a[i] <= v}) >= k

\* twice the median of a (an integer for either parity of the length)
Median2(a) ==
  LET n == Len(a)
  IN IF n % 2 = 1 THEN 2 * Kth(a, (n + 1) \div 2)
     ELSE Kth(a, n \div 2) + Kth(a, n \div 2 + 1)

\* bisquare(|r| / h) = (1 - u^2)^2 for u < 1, else 0, in units of 1/WOne
Bisquare(r, h) ==
  IF Abs(r) >= h THEN 0
  ELSE ((((h * h - r * r) * (h * h - r * r)) \div (h * h)) * WOne) \div (h * h)

RobustWeights(remainder) ==
  LET h == 3 * Median2([i \in DOMAIN remainder |-> Abs(remainder[i])])
  IN IF h = 0 THEN Ones(Len(remainder))
     ELSE [i \in DOMAIN remainder |-> Bisquare(remainder[i], h)]

\* ------------------------------------------------------------- STL engine
StlIdle == [state |-> "Idle", y |-> <<>>, np |-> 0, ni |-> 0, no |-> 0,
            robust |-> FALSE, mode |-> "mean", seasonal |-> <<>>,
            trend |-> <<>>, remainder |-> <<>>, weights |-> <<>>,
            pass |-> 0, k |-> 0, inner_total |-> 0]

\* Degenerate inputs and the parameter invariant, checked before any work
StlInvalid(y, np, p) == np < 2 \/ Len(y) < 2 * np \/ ~ValidStlParams(p)

\* Init: trend zero, robustness weights 1 for every observation
StlInitState(y, np, ni, no, robust, mode) ==
  [state |-> "Init", y |-> y, np |-> np, ni |-> ni, no |-> no,
   robust |-> robust, mode |-> mode, seasonal |-> Zeros(Len(y)),
   trend |-> Zeros(Len(y)), remainder |-> <<>>, weights |-> Ones(Len(y)),
   pass |-> 0, k |-> 0, inner_total |-> 0]

\* one inner iteration: steps 1-6
InnerIteration(s) ==
  LET detrended == Sub(s.y, s.trend)
      c == CycleSubseries(detrended, s.weights, s.np, s.mode)
      seasonal == Sub(c, LowPass(c))
      deseasonalized == Sub(s.y, seasonal)
      trend == Loess(deseasonalized, s.weights, s.mode)
  IN [s EXCEPT !.seasonal = seasonal, !.trend = trend,
               !.k = s.k + 1, !.inner_total = s.inner_total + 1]

Remainder(s) == [i \in DOMAIN s.y |-> s.y[i] - s.seasonal[i] - s.trend[i]]

\* MorePasses stopping once the remainder has converged to zero
MorePasses_EarlyExit(s) ==
  s.robust /\ s.pass < s.no /\ \E i \in DOMAIN s.y : Remainder(s)[i] # 0

\* whether another outer pass follows the one just checked
MorePasses(s) == s.robust /\ s.pass < s.no

\* ------------------------------------------------------------ MSTL engine
\* a default-constructed stl::mstl_params() holding the shared STL parameters
MstlParams(stl_params) ==
  [stl_params |-> stl_params, iterations |-> NoInt, lambda |-> NoInt,
   seasonal_lengths |-> NoSeq]

DefaultIterations == 1

EffIterations(mp) == IF mp.iterations.has THEN mp.iterations.val ELSE DefaultIterations

\* Box-Cox power transform (x^lambda - 1) / lambda, for lambda in {1, 2}
BoxCox(x, lambda) == IF lambda = 1 THEN x - 1 ELSE (x * x - 1) \div lambda

Transformed(y, mp) ==
  IF mp.lambda.has THEN [i \in DOMAIN y |-> BoxCox(y[i], mp.lambda.val)] ELSE y

\* the shared STL parameters with this period's seasonal_length override
StlParamsFor(mp, idx) ==
  IF mp.seasonal_lengths.has
  THEN SetParam(mp.stl_params, "seasonal_length", mp.seasonal_lengths.val[idx])
  ELSE mp.stl_params

\* MstlInvalid leaving the per-period overrides to each STL fit
MstlInvalid_Lazy(y, periods, mp) ==
  \/ periods = <<>>
  \/ \E k \in DOMAIN periods : periods[k] < 2 \/ Len(y) < 2 * periods[k]
  \/ EffIterations(mp) < 1
  \/ mp.seasonal_lengths.has /\ Len(mp.seasonal_lengths.val) # Len(periods)
  \/ mp.lambda.has /\ \E i \in DOMAIN y : y[i] <= 0
  \/ ~ValidStlParams(mp.stl_params)

\* everything the fit validates, before any smoothing
MstlInvalid(y, periods, mp) ==
  \/ periods = <<>>
  \/ \E k \in DOMAIN periods : periods[k] < 2 \/ Len(y) < 2 * periods[k]
  \/ EffIterations(mp) < 1
  \/ mp.seasonal_lengths.has /\ Len(mp.seasonal_lengths.val) # Len(periods)
  \/ mp.lambda.has /\ \E i \in DOMAIN y : y[i] <= 0
  \/ ~ValidStlParams(mp.stl_params)
  \/ /\ mp.seasonal_lengths.has
     /\ Len(mp.seasonal_lengths.val) = Len(periods)
     /\ \E k \in DOMAIN periods : ~ValidStlParams(StlParamsFor(mp, k))

MstlIdle == [state |-> "Idle", x |-> <<>>, periods |-> <<>>, iterations |-> 0,
             iter |-> 0, idx |-> 0, seasonal |-> <<>>, fitted |-> <<>>,
             trend |-> <<>>, remainder |-> <<>>, mode |-> "mean"]

\* trend = 0 and one seasonal accumulator per period
MstlInitState(y, periods, mp, mode) ==
  [state |-> "Running", x |-> Transformed(y, mp), periods |-> periods, mode |-> mode,
   iterations |-> EffIterations(mp), iter |-> 1, idx |-> 1,
   seasonal |-> [k \in DOMAIN periods |-> Zeros(Len(y))],
   fitted |-> [k \in DOMAIN periods |-> 0],
   trend |-> Zeros(Len(y)), remainder |-> <<>>]

\* the sum at position i of the seasonal components of the periods in K
SeasonalSum(seasonal, K, i) == SumOver([k \in DOMAIN seasonal |-> seasonal[k][i]], K)

\* transformed series - trend - the seasonal components of all other periods
Deseasonalized(m) ==
  [i \in DOMAIN m.x |->
     m.x[i] - m.trend[i] - SeasonalSum(m.seasonal, DOMAIN m.seasonal \ {m.idx}, i)]

MstlRemainder(m) ==
  [i \in DOMAIN m.x |->
     m.x[i] - m.trend[i] - SeasonalSum(m.seasonal, DOMAIN m.seasonal, i)]

\* ------------------------------------------------------ strength metrics
\* N^2 times the population variance of xs
VarN2(xs) == Len(xs) * SumSeq([i \in DOMAIN xs |-> xs[i] * xs[i]]) - SumSeq(xs) * SumSeq(xs)

\* max(0, 1 - Var(remainder) / Var(component + remainder)), in percent
Strength(component, remainder) ==
  LET den == VarN2([i \in DOMAIN remainder |-> component[i] + remainder[i]])
  IN IF den = 0 THEN 0 ELSE Max(0, 100 - (100 * VarN2(remainder)) \div den)

\* stl::StlResult<float>{seasonal, trend, remainder, weights}
StlResult(seasonal, trend, remainder, weights) ==
  [seasonal |-> seasonal, trend |-> trend, remainder |-> remainder, weights |-> weights]

\* ------------------------------------------------------------------ state
VARIABLES call, pc, series, periods, params, mstl_params, stl, mstl, result, what

vars == <<call, pc, series, periods, params, mstl_params, stl, mstl, result, what>>

\* ----------------------------------------------------------------- inputs
Shapes == {"const", "alt", "ramp"}

ShapeCell(shape, i) ==
  IF shape = "const" THEN Cell("double", 2)
  ELSE IF shape = "alt" THEN Cell("int", IF i % 2 = 1 THEN 0 ELSE 3)
  ELSE Cell("double", i)

ShapeCells(shape, n) == [i \in 1..n |-> ShapeCell(shape, i)]

SeriesTerms ==
  {NotAList}
  \cup {List(ShapeCells(sh, n)) : sh \in Shapes, n \in 0..MaxLen}
  \cup {List([ShapeCells("ramp", n) EXCEPT ![n] = Cell(bad, n)]) :
          bad \in {"atom", "bigint"}, n \in 1..MaxLen}

Vectors == {[i \in 1..n |-> ShapeCell(sh, i).val] : sh \in Shapes, n \in 0..(MaxLen \div 2)}

LoopChoices == {NoInt} \cup {Some(i) : i \in 0..MaxLoops}

Periods1 == {MinInt, 0} \cup 1..(MaxLen \div 2 + 1)

PeriodValues == {MinInt, 1, 2, 3, 2 ^ (IntBits - 2)}

PeriodLists ==
  {<<>>} \cup {<<a>> : a \in PeriodValues}
         \cup {<<a, b>> : a \in PeriodValues, b \in PeriodValues}

DecomposeParams ==
  {[ExStlParams EXCEPT !.inner_loops = il, !.outer_loops = ol, !.robust = r,
                       !.seasonal_length = sl] :
     il \in LoopChoices, ol \in LoopChoices,
     r \in {NoBool, Some(TRUE), Some(FALSE)}, sl \in {NoInt, Some(4)}}

MultiParams ==
  {[ExStlParams EXCEPT !.iterations = it, !.lambda = la, !.seasonal_lengths = sl,
                       !.robust = r] :
     it \in {NoInt, Some(0 - 1), Some(0), Some(2)},
     la \in {NoInt, Some(1), Some(2)},
     sl \in {NoSeq, Some(<<3>>), Some(<<3, 5>>), Some(<<3, 4>>), Some(<<0 - 1>>)},
     r \in {NoBool, Some(TRUE)}}

Call(op, series_term, period, periods_int64, ex_params, include_weights, a, b) ==
  [op |-> op, series_term |-> series_term, period |-> period,
   periods_int64 |-> periods_int64, ex_params |-> ex_params,
   include_weights |-> include_weights, component |-> a, remainder |-> b]

DecomposeCalls ==
  {Call("decompose", t, p, <<>>, ex, w, <<>>, <<>>) :
     t \in SeriesTerms, p \in Periods1, ex \in DecomposeParams, w \in BOOLEAN}

MultiCalls ==
  {Call("decompose_multi", t, 0, ps, ex, FALSE, <<>>, <<>>) :
     t \in SeriesTerms, ps \in PeriodLists, ex \in MultiParams}

StrengthCalls ==
  {Call(op, NotAList, 0, <<>>, ExStlParams, FALSE, a, b) :
     op \in {"seasonal_strength", "trend_strength"}, a \in Vectors, b \in Vectors}

NoResult == [returned |-> FALSE, seasonal |-> <<>>, seasonals |-> <<>>,
             trend |-> <<>>, remainder |-> <<>>, weights |-> <<>>, strength |-> 0]

Entry(op) ==
  IF op = "decompose" THEN "d_to_vector"
  ELSE IF op = "decompose_multi" THEN "m_to_vector"
  ELSE "s_call"

InitWith(calls) ==
  /\ call \in calls
  /\ pc = Entry(call.op)
  /\ series = <<>>
  /\ periods = <<>>
  /\ params = StlParams
  /\ mstl_params = MstlParams(StlParams)
  /\ stl = StlIdle
  /\ mstl = MstlIdle
  /\ result = NoResult
  /\ what = ""

Init == InitWith(DecomposeCalls \cup MultiCalls \cup StrengthCalls)

\* throw std::invalid_argument(msg): the call ends with no result
Throw(msg) ==
  /\ pc' = "failed"
  /\ what' = msg
  /\ UNCHANGED <<call, series, periods, params, mstl_params, stl, mstl, result>>

\* ------------------------------------------------------------- decompose
DecomposeToVector ==
  /\ pc = "d_to_vector"
  /\ LET r == to_vector_float(call.series_term)
     IN IF r.ok
        THEN /\ series' = r.vec
             /\ pc' = "d_check_period"
             /\ UNCHANGED <<call, periods, params, mstl_params, stl, mstl, result, what>>
        ELSE Throw(r.what)

DecomposeCheckPeriod ==
  /\ pc = "d_check_period"
  /\ IF call.period < 2
     THEN Throw("period must be greater than 1")
     ELSE /\ pc' = "d_convert"
          /\ UNCHANGED <<call, series, periods, params, mstl_params, stl, mstl, result, what>>

DecomposeConvertParams ==
  /\ pc = "d_convert"
  /\ params' = convert_params(call.ex_params)
  /\ pc' = "d_fit"
  /\ UNCHANGED <<call, series, periods, mstl_params, stl, mstl, result, what>>

\* params.fit(series, period): validation, then Init
StlFit ==
  /\ pc = "d_fit"
  /\ stl.state = "Idle"
  /\ IF StlInvalid(series, call.period, params)
     THEN Throw("series has less than two periods")
     ELSE /\ \E mode \in Modes :
               stl' = StlInitState(series, call.period, EffInner(params),
                                   EffOuter(params), EffRobust(params), mode)
          /\ UNCHANGED <<call, pc, series, periods, params, mstl_params, mstl, result, what>>

\* DecomposeResult returning the trend in the remainder's place
DecomposeResult_RemainderLost(r, include_weights) ==
  [NoResult EXCEPT !.returned = TRUE, !.seasonal = r.seasonal, !.trend = r.trend,
                   !.remainder = r.trend,
                   !.weights = IF include_weights THEN r.weights ELSE <<>>]

\* DecomposeResult returning the remainder in the weights' place
DecomposeResult_WrongWeights(r, include_weights) ==
  [NoResult EXCEPT !.returned = TRUE, !.seasonal = r.seasonal, !.trend = r.trend,
                   !.remainder = r.remainder,
                   !.weights = IF include_weights THEN r.remainder ELSE <<>>]

\* the tuple decompose returns
DecomposeResult(r, include_weights) ==
  [NoResult EXCEPT !.returned = TRUE, !.seasonal = r.seasonal, !.trend = r.trend,
                   !.remainder = r.remainder,
                   !.weights = IF include_weights THEN r.weights ELSE <<>>]

DecomposeReturn ==
  /\ pc = "d_fit"
  /\ stl.state = "Done"
  /\ result' = DecomposeResult(StlResult(stl.seasonal, stl.trend, stl.remainder, stl.weights),
                               call.include_weights)
  /\ pc' = "done"
  /\ UNCHANGED <<call, series, periods, params, mstl_params, stl, mstl, what>>

\* ------------------------------------------------- STL engine state machine
InFit == pc \in {"d_fit", "m_fit"}

StlInit ==
  /\ InFit
  /\ stl.state = "Init"
  /\ stl' = [stl EXCEPT !.state = "InnerLoop", !.pass = 1, !.k = 0]
  /\ UNCHANGED <<call, pc, series, periods, params, mstl_params, mstl, result, what>>

StlInnerLoop ==
  /\ InFit
  /\ stl.state = "InnerLoop"
  /\ stl' = IF stl.k < stl.ni THEN InnerIteration(stl)
            ELSE [stl EXCEPT !.state = "OuterCheck"]
  /\ UNCHANGED <<call, pc, series, periods, params, mstl_params, mstl, result, what>>

StlOuterCheck ==
  /\ InFit
  /\ stl.state = "OuterCheck"
  /\ stl' = [stl EXCEPT !.remainder = Remainder(stl),
                        !.state = IF MorePasses(stl) THEN "RobustWeightUpdate" ELSE "Done"]
  /\ UNCHANGED <<call, pc, series, periods, params, mstl_params, mstl, result, what>>

StlRobustWeightUpdate ==
  /\ InFit
  /\ stl.state = "RobustWeightUpdate"
  /\ stl' = [stl EXCEPT !.weights = RobustWeights(stl.remainder),
                        !.state = "InnerLoop", !.pass = stl.pass + 1, !.k = 0]
  /\ UNCHANGED <<call, pc, series, periods, params, mstl_params, mstl, result, what>>

\* -------------------------------------------------------- decompose_multi
MultiToVector ==
  /\ pc = "m_to_vector"
  /\ LET r == to_vector_float(call.series_term)
     IN IF r.ok
        THEN /\ series' = r.vec
             /\ pc' = "m_check_empty"
             /\ UNCHANGED <<call, periods, params, mstl_params, stl, mstl, result, what>>
        ELSE Throw(r.what)

MultiCheckEmpty ==
  /\ pc = "m_check_empty"
  /\ IF call.periods_int64 = <<>>
     THEN Throw("periods must not be empty")
     ELSE /\ pc' = "m_periods"
          /\ UNCHANGED <<call, series, periods, params, mstl_params, stl, mstl, result, what>>

\* TooShort comparing the signed product, without the cast
TooShort_SignedCompare(size, period) == size < Mul2(period)

\* static_cast<size_t>(series.size()) < static_cast<size_t>(period * 2)
TooShort(size, period) == CastSizeT(size) < CastSizeT(Mul2(period))

\* PushPeriod inserting at the front
PushPeriod_Front(acc, period) == <<CastSizeT(period)>> \o acc

\* periods.push_back(static_cast<size_t>(period))
PushPeriod(acc, period) == Append(acc, CastSizeT(period))

\* the loop over periods_int64: the first bad period throws; overflow tells
\* whether a period * 2 the loop evaluated left int64_t
RECURSIVE PeriodsLoop(_, _, _, _)
PeriodsLoop(size, periods_int64, i, acc) ==
  IF i > Len(periods_int64)
  THEN [ok |-> TRUE, periods |-> acc, what |-> "", overflow |-> FALSE]
  ELSE IF periods_int64[i] < 2
       THEN [ok |-> FALSE, periods |-> acc, what |-> "periods must be at least 2",
             overflow |-> FALSE]
       ELSE LET rest ==
                  IF TooShort(size, periods_int64[i])
                  THEN [ok |-> FALSE, periods |-> acc,
                        what |-> "series has less than two periods", overflow |-> FALSE]
                  ELSE PeriodsLoop(size, periods_int64, i + 1,
                                   PushPeriod(acc, periods_int64[i]))
            IN [rest EXCEPT !.overflow = rest.overflow \/ Overflows(periods_int64[i])]

\* a build that traps signed overflow ends the process at the overflowing product
Abort ==
  /\ pc' = "aborted"
  /\ what' = "signed integer overflow"
  /\ UNCHANGED <<call, series, periods, params, mstl_params, stl, mstl, result>>

MultiConvertPeriods ==
  /\ pc = "m_periods"
  /\ LET r == PeriodsLoop(Len(series), call.periods_int64, 1, <<>>)
     IN \/ IF r.ok
           THEN /\ periods' = r.periods
                /\ pc' = "m_params"
                /\ UNCHANGED <<call, series, params, mstl_params, stl, mstl, result, what>>
           ELSE Throw(r.what)
        \/ /\ r.overflow
           /\ Abort

ApplyIterations(mp, ex_params) ==
  IF ex_params.iterations.has
  THEN [mp EXCEPT !.iterations = Some(CastSizeT(ex_params.iterations.val))]
  ELSE mp

ApplyLambda(mp, ex_params) ==
  IF ex_params.lambda.has
  THEN [mp EXCEPT !.lambda = Some(ex_params.lambda.val)]
  ELSE mp

ApplySeasonalLengths(mp, ex_params) ==
  IF ex_params.seasonal_lengths.has
  THEN [mp EXCEPT !.seasonal_lengths =
          Some([k \in DOMAIN ex_params.seasonal_lengths.val |->
                  CastSizeT(ex_params.seasonal_lengths.val[k])])]
  ELSE mp

\* the MSTL parameters decompose_multi builds from the Params struct
BuildMstlParams(ex_params) ==
  ApplySeasonalLengths(
    ApplyLambda(
      ApplyIterations(MstlParams(convert_params(ex_params)), ex_params),
      ex_params),
    ex_params)

MultiBuildParams ==
  /\ pc = "m_params"
  /\ params' = convert_params(call.ex_params)
  /\ mstl_params' = BuildMstlParams(call.ex_params)
  /\ pc' = "m_fit"
  /\ UNCHANGED <<call, series, periods, stl, mstl, result, what>>

\* mstl_params.fit(series, periods): validation, then trend = 0
MstlFit ==
  /\ pc = "m_fit"
  /\ mstl.state = "Idle"
  /\ IF MstlInvalid(series, periods, mstl_params)
     THEN Throw("invalid MSTL input")
     ELSE /\ \E mode \in Modes : mstl' = MstlInitState(series, periods, mstl_params, mode)
          /\ UNCHANGED <<call, pc, series, periods, params, mstl_params, stl, result, what>>

\* one STL fit of the deseasonalized series against the current period
MstlStartStl ==
  /\ pc = "m_fit"
  /\ mstl.state = "Running"
  /\ stl.state = "Idle"
  /\ LET p == StlParamsFor(mstl_params, mstl.idx)
         y == Deseasonalized(mstl)
     IN IF StlInvalid(y, mstl.periods[mstl.idx], p)
        THEN Throw("invalid STL input")
        ELSE /\ stl' = StlInitState(y, mstl.periods[mstl.idx],
                                    EffInner(p), 1, EffRobust(p), mstl.mode)
             /\ UNCHANGED <<call, pc, series, periods, params, mstl_params, mstl, result, what>>

\* store the fit's seasonal output; the trend after the last period of a pass
MstlCollect ==
  /\ pc = "m_fit"
  /\ mstl.state = "Running"
  /\ stl.state = "Done"
  /\ LET last == mstl.idx = Len(mstl.periods)
         final == last /\ mstl.iter >= mstl.iterations
     IN mstl' = [mstl EXCEPT
                   !.seasonal[mstl.idx] = stl.seasonal,
                   !.fitted[mstl.idx] = stl.np,
                   !.trend = IF last THEN stl.trend ELSE mstl.trend,
                   !.idx = IF last THEN 1 ELSE mstl.idx + 1,
                   !.iter = IF last /\ ~final THEN mstl.iter + 1 ELSE mstl.iter,
                   !.state = IF final THEN "Finish" ELSE "Running"]
  /\ stl' = StlIdle
  /\ UNCHANGED <<call, pc, series, periods, params, mstl_params, result, what>>

\* after the final iteration: the remainder
MstlFinish ==
  /\ pc = "m_fit"
  /\ mstl.state = "Finish"
  /\ mstl' = [mstl EXCEPT !.remainder = MstlRemainder(mstl), !.state = "Done"]
  /\ UNCHANGED <<call, pc, series, periods, params, mstl_params, stl, result, what>>

\* the tuple decompose_multi returns (MSTL provides no weights)
MultiResult(seasonal, trend, remainder) ==
  [NoResult EXCEPT !.returned = TRUE, !.seasonals = seasonal, !.trend = trend,
                   !.remainder = remainder]

MultiReturn ==
  /\ pc = "m_fit"
  /\ mstl.state = "Done"
  /\ result' = MultiResult(mstl.seasonal, mstl.trend, mstl.remainder)
  /\ pc' = "done"
  /\ UNCHANGED <<call, series, periods, params, mstl_params, stl, mstl, what>>

\* ---------------------------------------- seasonal_strength, trend_strength
\* StlResult::seasonal_strength(): fails when the sequences differ in length
seasonal_strength_of(r) ==
  IF Len(r.seasonal) # Len(r.remainder) THEN [ok |-> FALSE, value |-> 0]
  ELSE [ok |-> TRUE, value |-> Strength(r.seasonal, r.remainder)]

\* StlResult::trend_strength(): fails when the sequences differ in length
trend_strength_of(r) ==
  IF Len(r.trend) # Len(r.remainder) THEN [ok |-> FALSE, value |-> 0]
  ELSE [ok |-> TRUE, value |-> Strength(r.trend, r.remainder)]

\* SeasonalResult passing seasonal in the remainder's place
SeasonalResult_SameTwice(seasonal, remainder) == StlResult(seasonal, <<>>, seasonal, <<>>)

\* stl::StlResult<float>{seasonal, {}, remainder, {}}
SeasonalResult(seasonal, remainder) == StlResult(seasonal, <<>>, remainder, <<>>)

\* stl::StlResult<float>{{}, trend, remainder, {}}
TrendResult(trend, remainder) == StlResult(<<>>, trend, remainder, <<>>)

Returned(r) ==
  IF r.ok
  THEN /\ result' = [NoResult EXCEPT !.returned = TRUE, !.strength = r.value]
       /\ pc' = "done"
       /\ UNCHANGED <<call, series, periods, params, mstl_params, stl, mstl, what>>
  ELSE Throw("sequences differ in length")

seasonal_strength ==
  /\ pc = "s_call"
  /\ call.op = "seasonal_strength"
  /\ Returned(seasonal_strength_of(SeasonalResult(call.component, call.remainder)))

trend_strength ==
  /\ pc = "s_call"
  /\ call.op = "trend_strength"
  /\ Returned(trend_strength_of(TrendResult(call.component, call.remainder)))

\* ------------------------------------------------------------ specification
Next ==
  \/ DecomposeToVector
  \/ DecomposeCheckPeriod
  \/ DecomposeConvertParams
  \/ StlFit
  \/ StlInit
  \/ StlInnerLoop
  \/ StlOuterCheck
  \/ StlRobustWeightUpdate
  \/ DecomposeReturn
  \/ MultiToVector
  \/ MultiCheckEmpty
  \/ MultiConvertPeriods
  \/ MultiBuildParams
  \/ MstlFit
  \/ MstlStartStl
  \/ MstlCollect
  \/ MstlFinish
  \/ MultiReturn
  \/ seasonal_strength
  \/ trend_strength

Spec == Init /\ [][Next]_vars

NextDecompose ==
  \/ DecomposeToVector
  \/ DecomposeCheckPeriod
  \/ DecomposeConvertParams
  \/ StlFit
  \/ StlInit
  \/ StlInnerLoop
  \/ StlOuterCheck
  \/ StlRobustWeightUpdate
  \/ DecomposeReturn

SpecDecompose == InitWith(DecomposeCalls) /\ [][NextDecompose]_vars

NextMulti ==
  \/ MultiToVector
  \/ MultiCheckEmpty
  \/ MultiConvertPeriods
  \/ MultiBuildParams
  \/ MstlFit
  \/ MstlStartStl
  \/ StlInit
  \/ StlInnerLoop
  \/ StlOuterCheck
  \/ MstlCollect
  \/ MstlFinish
  \/ MultiReturn

SpecMulti == InitWith(MultiCalls) /\ [][NextMulti]_vars

NextStrength == seasonal_strength \/ trend_strength

SpecStrength == InitWith(StrengthCalls) /\ [][NextStrength]_vars

\* ---- parameter conversion alone: every combination of present fields
FieldValue(i) == 10 + i

Present(name, present) ==
  IF name = "robust" THEN (IF name \in present THEN Some(TRUE) ELSE NoBool)
  ELSE IF name = "seasonal_lengths"
       THEN (IF name \in present THEN Some(<<3>>) ELSE NoSeq)
       ELSE IF name \in present
            THEN Some(FieldValue(CHOOSE i \in 1..15 :
                   (StlFields \o <<"iterations", "lambda", "seasonal_lengths">>)[i] = name))
            ELSE NoInt

AllFields == {StlFields[i] : i \in DOMAIN StlFields} \cup {"iterations", "lambda", "seasonal_lengths"}

ParamsOf(present) == [name \in AllFields |-> Present(name, present)]

ParamCalls ==
  {Call(op, List(ShapeCells("ramp", 4)), 2, <<2>>, ParamsOf(present), FALSE, <<>>, <<>>) :
     op \in {"decompose", "decompose_multi"}, present \in SUBSET AllFields}

\* the call has passed its series and period checks and converts the parameters
InitParams ==
  /\ call \in ParamCalls
  /\ pc = IF call.op = "decompose" THEN "d_convert" ELSE "m_params"
  /\ series = to_vector_float(call.series_term).vec
  /\ periods = IF call.op = "decompose" THEN <<>> ELSE <<2>>
  /\ params = StlParams
  /\ mstl_params = MstlParams(StlParams)
  /\ stl = StlIdle
  /\ mstl = MstlIdle
  /\ result = NoResult
  /\ what = ""

NextParams == DecomposeConvertParams \/ MultiBuildParams

SpecParams == InitParams /\ [][NextParams]_vars

\* ================================================================== claims
\* what the caller passed
TermLen == Len(call.series_term.cells)

WellFormed ==
  /\ call.series_term.is_list
  /\ \A i \in DOMAIN call.series_term.cells : CellIsNumber(call.series_term.cells[i])

InputAt(i) == call.series_term.cells[i].val

CallerRobust == call.ex_params.robust.has /\ call.ex_params.robust.val

CallerInner ==
  IF call.ex_params.inner_loops.has THEN call.ex_params.inner_loops.val
  ELSE DefaultInnerLoops

CallerOuter ==
  IF call.ex_params.outer_loops.has THEN call.ex_params.outer_loops.val
  ELSE DefaultOuterLoops

\* the STL parameters the caller passed satisfy the parameter invariant
CallerParamsValid ==
  ValidStlParams([name \in DOMAIN StlParams |-> call.ex_params[name]])

BadSingle == call.period < 2 \/ TermLen < 2 * call.period

\* C1: decompose fails whenever period < 2 or the series is shorter than
\* 2 * period (it never enters the fit's state machine and never returns), and
\* a well-formed call with period >= 2 and at least 2 * period observations,
\* the boundary length 2 * period included, never fails.
C1_PeriodAndLengthValidation ==
  call.op = "decompose" =>
    /\ BadSingle => (pc # "done" /\ stl.state = "Idle" /\ ~result.returned)
    /\ (~BadSingle /\ WellFormed /\ CallerParamsValid) => pc # "failed"

C1_Witness_BoundaryAccepted ==
  /\ call.op = "decompose"
  /\ pc = "done"
  /\ call.period = 3
  /\ TermLen = 2 * call.period

C1_Witness_BoundaryRejected ==
  /\ call.op = "decompose"
  /\ pc = "failed"
  /\ call.period = 3
  /\ TermLen = 2 * call.period - 1
  /\ what = "series has less than two periods"

BadMulti ==
  \/ call.periods_int64 = <<>>
  \/ \E k \in DOMAIN call.periods_int64 :
       call.periods_int64[k] < 2 \/ TermLen < 2 * call.periods_int64[k]

\* C2: decompose_multi never reaches the MSTL fit when the periods list is
\* empty, a period is < 2 or the series is shorter than twice a period; every
\* other call on a well-formed series reaches the fit (a failure can then only
\* come from inside the fit).
C2_MultiValidation ==
  call.op = "decompose_multi" =>
    /\ BadMulti => (pc \notin {"m_params", "m_fit", "done"} /\ mstl.state = "Idle")
    /\ (~BadMulti /\ WellFormed /\ pc = "failed") => what = "invalid MSTL input"

C2_Witness_ReachesFit ==
  /\ call.op = "decompose_multi"
  /\ pc = "m_fit"
  /\ call.periods_int64 = <<2, 3>>
  /\ TermLen = 6

\* C3: a failed call has returned no result and has begun no STL step: the
\* STL and MSTL engines are still untouched when the failure is raised.
C3_FailBeforeWork ==
  /\ pc = "failed" => (result = NoResult /\ stl = StlIdle /\ mstl = MstlIdle)
  /\ result.returned => pc = "done"

C3_Witness_LengthsMismatch ==
  /\ pc = "failed"
  /\ call.op = "decompose_multi"
  /\ what = "invalid MSTL input"
  /\ call.ex_params.seasonal_lengths.has
  /\ Len(call.ex_params.seasonal_lengths.val) # Len(call.periods_int64)
  /\ ~BadMulti

\* C4: seasonal_strength and trend_strength return a value only when their two
\* sequences have the same length, and fail whenever the lengths differ.
C4_StrengthLengths ==
  call.op \in {"seasonal_strength", "trend_strength"} =>
    /\ pc = "done" => Len(call.component) = Len(call.remainder)
    /\ pc = "failed" => Len(call.component) # Len(call.remainder)
    /\ Len(call.component) # Len(call.remainder) => ~result.returned

C4_Witness_Differ ==
  /\ call.op = "seasonal_strength"
  /\ pc = "failed"
  /\ Len(call.component) = 2
  /\ Len(call.remainder) = 3

\* C5: a returned single-period decomposition has seasonal, trend and remainder
\* of the input's length, and seasonal + trend + remainder is the input series
\* at every index, for every inner_loops / outer_loops / robust setting.
C5_Reconstruction ==
  (call.op = "decompose" /\ pc = "done") =>
    /\ Len(result.seasonal) = TermLen
    /\ Len(result.trend) = TermLen
    /\ Len(result.remainder) = TermLen
    /\ \A i \in 1..TermLen :
         result.seasonal[i] + result.trend[i] + result.remainder[i] = InputAt(i)

C5_Witness_RobustFit ==
  /\ call.op = "decompose"
  /\ pc = "done"
  /\ CallerRobust
  /\ stl.pass = 2
  /\ \E i \in 1..TermLen : result.seasonal[i] # 0
  /\ \E i \in 1..TermLen : result.remainder[i] # 0

\* the series MSTL decomposes: the input, power-transformed when lambda is set
InputTransformedAt(i) ==
  IF call.ex_params.lambda.has THEN BoxCox(InputAt(i), call.ex_params.lambda.val)
  ELSE InputAt(i)

\* C6: a returned MSTL decomposition holds one seasonal component per requested
\* period, in the order requested (component k was fitted against period k),
\* and the sum of all seasonal components plus trend plus remainder is the
\* (possibly transformed) series at every index.
C6_MultiReconstruction ==
  (call.op = "decompose_multi" /\ pc = "done") =>
    /\ Len(result.seasonals) = Len(call.periods_int64)
    /\ \A k \in DOMAIN call.periods_int64 :
         /\ mstl.fitted[k] = call.periods_int64[k]
         /\ result.seasonals[k] = mstl.seasonal[k]
         /\ Len(result.seasonals[k]) = TermLen
    /\ Len(result.trend) = TermLen
    /\ Len(result.remainder) = TermLen
    /\ \A i \in 1..TermLen :
         SeasonalSum(result.seasonals, DOMAIN result.seasonals, i)
           + result.trend[i] + result.remainder[i] = InputTransformedAt(i)

C6_Witness_TwoPeriodsTransformed ==
  /\ call.op = "decompose_multi"
  /\ pc = "done"
  /\ call.periods_int64 = <<2, 3>>
  /\ call.ex_params.lambda.has
  /\ mstl.iter = 2
  /\ result.seasonals[1] # result.seasonals[2]

WeightOk(w) == 0 <= w /\ w <= WOne

\* C7: in every state of a single-period fit and in the returned result every
\* robustness weight lies in [0, 1]; with robust = false every weight is 1.
C7_WeightBounds ==
  call.op = "decompose" =>
    /\ \A i \in DOMAIN stl.weights : WeightOk(stl.weights[i])
    /\ \A i \in DOMAIN result.weights : WeightOk(result.weights[i])
    /\ ~CallerRobust =>
         /\ \A i \in DOMAIN stl.weights : stl.weights[i] = WOne
         /\ \A i \in DOMAIN result.weights : result.weights[i] = WOne

C7_Witness_Downweighted ==
  /\ call.op = "decompose"
  /\ pc = "done"
  /\ CallerRobust
  /\ \E i \in DOMAIN result.weights : result.weights[i] < WOne
  /\ \E i \in DOMAIN result.weights : result.weights[i] > 0

\* the outer passes the loop counts alone prescribe
ExpectedPasses == IF CallerRobust THEN Max(CallerOuter, 1) ELSE 1

C8_Counts ==
  (call.op = "decompose" /\ stl.state = "Done") =>
    /\ stl.pass = ExpectedPasses
    /\ stl.inner_total = ExpectedPasses * CallerInner

\* a fit between Init and Done always has its next step to take
C8_NeverStuck ==
  (pc = "d_fit" /\ stl.state \notin {"Idle", "Done"}) =>
    stl.state \in {"Init", "InnerLoop", "OuterCheck", "RobustWeightUpdate"}

\* the steps left before Done, a function of the loop counts and counters alone
StepsLeft(s) ==
  LET perPass == CallerInner + 3
      afterCheck(pass) == (ExpectedPasses - pass) * perPass
  IN IF s.state = "Init" THEN CallerInner + 3 + afterCheck(1)
     ELSE IF s.state = "InnerLoop" THEN (CallerInner - s.k) + 2 + afterCheck(s.pass)
     ELSE IF s.state = "OuterCheck" THEN 1 + afterCheck(s.pass)
     ELSE IF s.state = "RobustWeightUpdate" THEN afterCheck(s.pass)
     ELSE 0

C8_StepCountsDown ==
  (call.op = "decompose" /\ stl.state # "Idle" /\ stl' # stl) =>
    StepsLeft(stl') = StepsLeft(stl) - 1

\* C8: a fit that has entered Init always ends in Done: it is never stuck and
\* every step lowers by one a step count fixed by the loop counts alone; it
\* ends after exactly one outer pass when robust = false and exactly
\* outer_loops passes when robust = true, each of exactly inner_loops inner
\* iterations, whatever the data.
C8_FixedPasses == [](C8_Counts /\ C8_NeverStuck) /\ [][C8_StepCountsDown]_vars

C8_Witness_TwoPasses ==
  /\ call.op = "decompose"
  /\ stl.state = "Done"
  /\ stl.pass = 2
  /\ stl.inner_total = 4
  /\ \A i \in DOMAIN stl.remainder : stl.remainder[i] = 0

Expected(name) ==
  IF call.ex_params[name].has THEN Some(call.ex_params[name].val) ELSE StlParams[name]

C9_Converted ==
  /\ pc = "d_fit" =>
       /\ \A i \in DOMAIN StlFields : params[StlFields[i]] = Expected(StlFields[i])
       /\ mstl_params = MstlParams(StlParams)
  /\ pc = "m_fit" =>
       /\ \A i \in DOMAIN StlFields :
            /\ params[StlFields[i]] = Expected(StlFields[i])
            /\ mstl_params.stl_params[StlFields[i]] = Expected(StlFields[i])
       /\ mstl_params.iterations.has = call.ex_params.iterations.has
       /\ mstl_params.lambda = call.ex_params.lambda
       /\ mstl_params.seasonal_lengths.has = call.ex_params.seasonal_lengths.has

\* C9: after conversion each of the twelve STL fields of the engine parameters
\* is the caller's value when present and the default when absent, whatever the
\* other fields hold; the MSTL-only fields leave a decompose call's parameters
\* untouched and are set in decompose_multi exactly when present; the caller's
\* record is never modified.
C9_FieldsIndependent == [](C9_Converted) /\ [][call' = call]_vars

C9_Witness_Mixed ==
  /\ pc = "m_fit"
  /\ call.ex_params.seasonal_length.has
  /\ ~call.ex_params.trend_length.has
  /\ call.ex_params.robust.has
  /\ call.ex_params.iterations.has
  /\ ~call.ex_params.lambda.has
  /\ params.seasonal_length = Some(FieldValue(1))
  /\ params.trend_length = NoInt

\* the period check decides exactly n < 2p in unbounded arithmetic
C10_PeriodCheckExact ==
  call.op = "decompose_multi" =>
    /\ pc \in {"m_params", "m_fit", "done"} =>
         \A k \in DOMAIN call.periods_int64 : TermLen >= 2 * call.periods_int64[k]
    /\ (pc = "failed" /\ what = "series has less than two periods") =>
         \E k \in DOMAIN call.periods_int64 : TermLen < 2 * call.periods_int64[k]

\* the values handed to the engine are the caller's
C10_CastsKeepValue ==
  (call.op = "decompose_multi" /\ pc \in {"m_fit", "done"}) =>
    /\ call.ex_params.iterations.has =>
         mstl_params.iterations.val = call.ex_params.iterations.val
    /\ call.ex_params.seasonal_lengths.has =>
         mstl_params.seasonal_lengths.val = call.ex_params.seasonal_lengths.val

\* C10: decompose_multi's period check rejects exactly when n < 2p in unbounded
\* arithmetic, and the iterations value and every seasonal_lengths entry reach
\* the engine with the caller's value after the cast to size_t.
C10_IntegerArithmeticSound == C10_PeriodCheckExact /\ C10_CastsKeepValue

====
